---- MODULE Spec2Model ----
(* Model of books/organize_books.py: the classification resolver            *)
(* (resolve_path_stack), the tree builder (build_virtual_tree), the         *)
(* balanced distributor (balance_and_execute) and the run of main() over a  *)
(* small file system.                                                       *)
EXTENDS Integers, Sequences, FiniteSets, TLC

VARIABLES
    pc,           \* position in main() / in the call of a function under test
    dry_run,      \* args.dry_run
    threshold,    \* args.threshold
    ddc_tree,     \* classification table: sequence of range definitions
    meta_map,     \* identifier -> metadata entry
    manual_map,   \* in-memory manual override map: filename -> code
    manual_file,  \* manual_ddc_map.json on disk
    fs_files,     \* regular files of the library: set of <<directory, filename>>
    fs_dirs,      \* directories below the library root (index directories apart)
    links,        \* symbolic links below By Author / By Year
    all_files,    \* result of the scan
    vtree,        \* LibraryNode tree: key path -> node
    map_updated,  \* second result of build_virtual_tree
    todo,         \* pending calls of balance_and_execute (stack of key paths)
    cur,          \* the call of balance_and_execute being executed
    visited,      \* key path -> what balance_and_execute decided there
    rs_code,      \* argument of the resolve_path_stack call under test
    rs_result,    \* its result
    fs_faulty,    \* environment: file operations of this file system can fail
    hist,         \* bookkeeping of the run (counters the claims refer to)
    inputs,       \* environment: the library root and the three input files
    results,      \* argument of the get_pareto_frontier call under test
    pareto_results \* its result

vars == <<pc, dry_run, threshold, ddc_tree, meta_map, manual_map, manual_file,
          fs_files, fs_dirs, links, all_files, vtree, map_updated, todo, cur,
          visited, rs_code, rs_result, fs_faulty, hist, inputs, results,
          pareto_results>>

-----------------------------------------------------------------------------
(* Bounds *)

MaxNum == 2        \* range bounds are 0..MaxNum, codes 0..MaxNum+1
MaxNodes == 3      \* ranges of an enumerated classification table
MaxFiles == 2      \* files in the library at the start
MaxThreshold == 1  \* --threshold ranges over 0..MaxThreshold
MaxBuildFiles == 2 \* files handed to build_virtual_tree under test
MaxTreeFiles == 3  \* files of a tree handed to balance_and_execute under test
MaxLimit == 2      \* thresholds of balance_and_execute under test
MaxResults == 3    \* results handed to get_pareto_frontier under test
MaxMeasure == 2    \* compressed sizes and compression times are 1..MaxMeasure

-----------------------------------------------------------------------------
(* Values of a classification code or of a range's 'number': JSON null, a  *)
(* JSON number, or a string that is a numeric literal, empty, or other text *)

NoneCode == [kind |-> "none", val |-> 0]
StrEmpty == [kind |-> "strempty", val |-> 0]
StrText == [kind |-> "strtext", val |-> 0]
StrNum(n) == [kind |-> "strnum", val |-> n]
JsonNum(n) == [kind |-> "num", val |-> n]
Absent == [kind |-> "absent", val |-> 0]

TruthyMut(c) == c.kind # "none"
\* Python truthiness of a code ('if not ddc_code')
Truthy(c) ==
    CASE c.kind = "none" -> FALSE
      [] c.kind = "strempty" -> FALSE
      [] c.kind = "num" -> c.val # 0
      [] OTHER -> TRUE

ParseDdcNumMut(num_str) ==
    IF num_str.kind \in {"strnum", "num"} THEN num_str.val ELSE 1
\* float(str(x).strip()), 0.0 on ValueError
ParseDdcNum(num_str) ==
    IF num_str.kind \in {"strnum", "num"} THEN num_str.val ELSE 0

-----------------------------------------------------------------------------
(* The classification table.  A table is a sequence of range definitions;  *)
(* parent = 0 for a top-level range, else the index of the range whose     *)
(* 'subordinates' list holds it; list order is index order.                *)

\* the elements of a list
SeqRange(s) == {s[k] : k \in 1..Len(s)}

Indices(table) == [i \in 1..Len(table) |-> i]

\* n.get('subordinates', []) / the top-level list for p = 0
Subordinates(table, p) ==
    SelectSeq(Indices(table), LAMBDA i: table[i].parent = p)

HasNumber(table, i) == table[i].number.kind # "absent"

NumberOf(table, i) == ParseDdcNum(table[i].number)

\* list.sort(key=...) is stable: x goes after every element whose key is <= its key
RECURSIVE InsertByNumber(_, _, _)
InsertByNumber(sorted, x, table) ==
    IF sorted = <<>> THEN <<x>>
    ELSE IF NumberOf(table, Head(sorted)) <= NumberOf(table, x)
         THEN <<Head(sorted)>> \o InsertByNumber(Tail(sorted), x, table)
         ELSE <<x>> \o sorted

RECURSIVE SortByNumber(_, _)
SortByNumber(nodes, table) ==
    IF nodes = <<>> THEN <<>>
    ELSE InsertByNumber(SortByNumber(SubSeq(nodes, 1, Len(nodes) - 1), table),
                        nodes[Len(nodes)], table)

NextExceedsMut(target_val, next_val) == target_val <= next_val
\* 'if target_val < next_val'
NextExceeds(target_val, next_val) == target_val < next_val

\* the for loop over valid_nodes; best = 0 stands for None
RECURSIVE ScanBest(_, _, _, _, _)
ScanBest(valid_nodes, i, target_val, best, table) ==
    IF i > Len(valid_nodes) THEN best
    ELSE IF NumberOf(table, valid_nodes[i]) <= target_val
         THEN IF i = Len(valid_nodes)
              THEN ScanBest(valid_nodes, i + 1, target_val, valid_nodes[i], table)
              ELSE IF NextExceeds(target_val, NumberOf(table, valid_nodes[i + 1]))
                   THEN valid_nodes[i]
                   ELSE ScanBest(valid_nodes, i + 1, target_val, best, table)
         ELSE best

BestNode(candidates, target_val, table) ==
    ScanBest(SortByNumber(SelectSeq(candidates, LAMBDA i: HasNumber(table, i)), table),
             1, target_val, 0, table)

\* the while loop
RECURSIVE ResolveLoop(_, _, _, _)
ResolveLoop(current_candidates, target_val, path_definitions, table) ==
    IF current_candidates = <<>> THEN path_definitions
    ELSE LET best_node == BestNode(current_candidates, target_val, table)
         IN IF best_node # 0
            THEN ResolveLoop(Subordinates(table, best_node), target_val,
                             Append(path_definitions, best_node), table)
            ELSE path_definitions

ResolvePathStack(ddc_code, table) ==
    IF ~Truthy(ddc_code) THEN <<>>
    ELSE ResolveLoop(Subordinates(table, 0), ParseDdcNum(ddc_code), <<>>, table)

-----------------------------------------------------------------------------
(* Filenames, paths and the LibraryNode tree                                *)

\* A filename is modelled by what the regular expressions read from it: the
\* bracketed identifier ("" when there is no '[ALNUM]' token) and the author
\* between ' by ' and ' [' ("" when the pattern does not match).
FileName(t, a, au) == [title |-> t, asin |-> a, author |-> au]

\* regex_asin.search(filename) and clean_asin(match.group(1)); "" for no match
AsinOf(filename) == filename.asin

\* extract_authors(filename)
ExtractAuthors(filename) == IF filename.author = "" THEN {} ELSE {filename.author}

\* a directory is the sequence of folder names below the library root
LibraryRoot == <<>>
ByAuthorDir == <<<<"", "By Author">>>>
ByYearDir == <<<<"", "By Year">>>>

\* (src_path, filename): the directory of src_path and its basename
FileInfo(dir, filename) == [dir |-> dir, name |-> filename]

\* def_data.get('id', str(def_data['number']))
NodeKey(def_data) ==
    IF def_data.has_id THEN def_data.id ELSE ParseDdcNum(def_data.number)

\* f"{node_id} {desc}"
GetFolderName(node_def) ==
    <<IF node_def.has_id THEN ToString(node_def.id) ELSE "???", node_def.description>>

\* LibraryNode(folder_name, full_path)
LibraryNode(folder_name, full_path, def) ==
    [folder_name |-> folder_name, full_path |-> full_path, files |-> <<>>,
     children |-> <<>>, ddc_def |-> def]

RootNode == LibraryNode(<<"", "ROOT">>, LibraryRoot, 0)

\* extend function f by the pair k :> v (or overwrite it)
Put(f, k, v) == [x \in DOMAIN f \cup {k} |-> IF x = k THEN v ELSE f[x]]

EmptyMap == [x \in {} |-> 0]

AttachFileMut(tree, current, path_stack, i, file, table) ==
    [tree EXCEPT ![<<>>].files = Append(@, file)]
\* lines 306-319: walk/create the nodes of path_stack from position i on, then add the file
RECURSIVE AttachFile(_, _, _, _, _, _)
AttachFile(tree, current, path_stack, i, file, table) ==
    IF i > Len(path_stack)
    THEN [tree EXCEPT ![current].files = Append(@, file)]
    ELSE LET def_data == table[path_stack[i]]
             node_key == NodeKey(def_data)
             child == Append(current, node_key)
             f_name == GetFolderName(def_data)
             created ==
                 IF child \in DOMAIN tree THEN tree
                 ELSE Put([tree EXCEPT ![current].children = Append(@, node_key)],
                          child,
                          LibraryNode(f_name, Append(tree[current].full_path, f_name),
                                      path_stack[i]))
         IN AttachFile(created, child, path_stack, i + 1, file, table)

\* meta_map[asin].get('ddc') when the identifier is in meta_map, else None
MetaCode(filename, meta) ==
    IF AsinOf(filename) # "" /\ AsinOf(filename) \in DOMAIN meta
    THEN (IF meta[AsinOf(filename)].ddc.kind = "absent" THEN NoneCode
          ELSE meta[AsinOf(filename)].ddc)
    ELSE NoneCode

UsesMetaMut(ddc_code) == ddc_code.kind # "none"
\* 'if not ddc_code' after the metadata lookup: the manual map is not consulted
UsesMeta(ddc_code) == Truthy(ddc_code)

IsUnknownMut(uses_meta, known) == ~uses_meta
\* lines 293-296: no code from the metadata and the filename is not in manual_map
IsUnknown(uses_meta, known) == ~uses_meta /\ ~known

AttachesMut(ddc_code, path_stack) == Truthy(ddc_code)
\* 'if ddc_code:' ... 'if path_stack:'
Attaches(ddc_code, path_stack) == Truthy(ddc_code) /\ path_stack # <<>>

RecordUnknownMut(manual, filename) == [x \in {filename} |-> NoneCode]
\* 'manual_map[filename] = None'
RecordUnknown(manual, filename) == Put(manual, filename, NoneCode)

\* one iteration of the loop of build_virtual_tree (lines 280-319)
BuildStep(acc, file, meta, table) ==
    LET from_meta == MetaCode(file.name, meta)
        known == file.name \in DOMAIN acc.manual
        unknown == IsUnknown(UsesMeta(from_meta), known)
        ddc_code ==
            IF UsesMeta(from_meta) THEN from_meta
            ELSE IF known /\ ~unknown THEN acc.manual[file.name] ELSE NoneCode
        manual2 ==
            IF unknown THEN RecordUnknown(acc.manual, file.name) ELSE acc.manual
        updated2 == acc.updated \/ unknown
        path_stack == IF Truthy(ddc_code) THEN ResolvePathStack(ddc_code, table) ELSE <<>>
        tree2 ==
            IF Attaches(ddc_code, path_stack)
            THEN AttachFile(acc.tree, <<>>, path_stack, 1, file, table)
            ELSE acc.tree
    IN [tree |-> tree2, manual |-> manual2, updated |-> updated2]

RECURSIVE BuildLoop(_, _, _, _, _)
BuildLoop(acc, files, i, meta, table) ==
    IF i > Len(files) THEN acc
    ELSE BuildLoop(BuildStep(acc, files[i], meta, table), files, i + 1, meta, table)

\* build_virtual_tree(files, meta_map, manual_map, ddc_tree, library_root)
BuildVirtualTree(files, meta, manual, table) ==
    BuildLoop([tree |-> (<<>> :> RootNode), manual |-> manual, updated |-> FALSE],
              files, 1, meta, table)

-----------------------------------------------------------------------------
(* The balanced distributor: what balance_and_execute decides at a node     *)

\* list.extend over a sequence of lists
RECURSIVE Flatten(_)
Flatten(lists) == IF lists = <<>> THEN <<>> ELSE Head(lists) \o Flatten(Tail(lists))

GetAllFilesRecursiveMut(tree, node) == tree[node].files
\* get_all_files_recursive(node)
RECURSIVE GetAllFilesRecursive(_, _)
GetAllFilesRecursive(tree, node) ==
    tree[node].files \o
        Flatten([k \in 1..Len(tree[node].children) |->
                    GetAllFilesRecursive(tree, Append(node, tree[node].children[k]))])

\* groups[child_key] for the children of node (lines 331-333)
GroupOf(tree, node, key) == GetAllFilesRecursive(tree, Append(node, key))

\* sorted(..., key=len(groups[k]), reverse=True) is stable: x goes after every
\* key whose group is at least as large
KeepsBeforeMut(size_before, size_new) == size_before > size_new
\* a stable descending sort never moves a key ahead of an equal one
KeepsBefore(size_before, size_new) == size_before >= size_new

RECURSIVE InsertBySize(_, _, _, _)
InsertBySize(sorted, x, tree, node) ==
    IF sorted = <<>> THEN <<x>>
    ELSE IF KeepsBefore(Len(GroupOf(tree, node, Head(sorted))), Len(GroupOf(tree, node, x)))
         THEN <<Head(sorted)>> \o InsertBySize(Tail(sorted), x, tree, node)
         ELSE <<x>> \o sorted

RECURSIVE SortedKeys(_, _, _)
SortedKeys(keys, tree, node) ==
    IF keys = <<>> THEN <<>>
    ELSE InsertBySize(SortedKeys(SubSeq(keys, 1, Len(keys) - 1), tree, node),
                      keys[Len(keys)], tree, node)

OverThresholdMut(current_load, limit) == current_load > limit + 1
\* 'if current_load > threshold'
OverThreshold(current_load, limit) == current_load > limit

\* the marking loop (lines 342-347): the number of keys marked active
RECURSIVE MarkActive(_, _, _, _, _, _)
MarkActive(sorted_keys, i, current_load, limit, tree, node) ==
    IF i > Len(sorted_keys) THEN [n |-> i - 1, load |-> current_load]
    ELSE IF OverThreshold(current_load, limit)
         THEN MarkActive(sorted_keys, i + 1,
                         current_load - Len(GroupOf(tree, node, sorted_keys[i])),
                         limit, tree, node)
         ELSE [n |-> i - 1, load |-> current_load]

\* lines 328-359 of balance_and_execute for one node
Balance(tree, node, limit) ==
    LET direct == tree[node].files
        keys == tree[node].children
        total_files == Len(GetAllFilesRecursive(tree, node))
        sorted_keys == SortedKeys(keys, tree, node)
        marked == MarkActive(sorted_keys, 1, total_files, limit, tree, node)
        active_subfolders == {sorted_keys[k] : k \in 1..marked.n}
        absorbed(key) ==
            IF key \in active_subfolders THEN <<>> ELSE GroupOf(tree, node, key)
    IN [node |-> node,
        total_files |-> total_files,
        sorted_keys |-> sorted_keys,
        active_subfolders |-> active_subfolders,
        current_load |-> marked.load,
        has_content_here |-> (Len(direct) > 0) \/ (marked.load > Len(direct)),
        files_staying |-> direct \o Flatten([k \in 1..Len(keys) |-> absorbed(keys[k])])]

-----------------------------------------------------------------------------
(* The file system and the steps of main()                                  *)

IsPrefix(d, e) == Len(d) <= Len(e) /\ SubSeq(e, 1, Len(d)) = d

\* 'BY_AUTHOR_DIR_NAME in r' / 'BY_YEAR_DIR_NAME in r'
UnderIndexDir(dir) == IsPrefix(ByAuthorDir, dir) \/ IsPrefix(ByYearDir, dir)

FilesIn(dir) == {f \in fs_files : f.dir = dir}

SubDirs(dir) == {d \in fs_dirs : Len(d) = Len(dir) + 1 /\ IsPrefix(dir, d)}

\* every order in which a directory listing can come back
RECURSIVE Perms(_)
Perms(S) ==
    IF S = {} THEN {<<>>}
    ELSE UNION {{<<x>> \o p : p \in Perms(S \ {x})} : x \in S}

\* the directory a link lies in
LinkDir(l) ==
    Append(IF l.index = "author" THEN ByAuthorDir ELSE ByYearDir, <<"", l.sub>>)

\* the non-directory entries os.walk lists for a directory: regular files and
\* symbolic links
EntriesIn(dir) ==
    {[dir |-> f.dir, name |-> f.name, islink |-> FALSE] : f \in FilesIn(dir)}
        \cup {[dir |-> dir, name |-> l.name, islink |-> TRUE] :
                 l \in {m \in links : LinkDir(m) = dir}}

\* the subdirectories os.walk lists: those of the library and those of the indexes
WalkDirs(dir) ==
    SubDirs(dir) \cup
        {d \in {LinkDir(l) : l \in links} \cup {f.dir : f \in fs_files} :
            Len(d) = Len(dir) + 1 /\ IsPrefix(dir, d)}

ScannedMut(dir, entry) == TRUE
\* lines 499-507: nothing below an index directory and no symbolic link
Scanned(dir, entry) == ~UnderIndexDir(dir) /\ ~entry.islink

\* os.walk(root_dir), top down: the files of a directory, then its
\* subdirectories one after the other; listings come in any order
RECURSIVE Walks(_)
RECURSIVE WalkAll(_)
Walks(dir) ==
    LET here == Perms({FileInfo(e.dir, e.name) :
                          e \in {x \in EntriesIn(dir) : Scanned(dir, x)}})
    IN UNION {{fp \o rest : fp \in here, rest \in WalkAll(dp)} : dp \in Perms(WalkDirs(dir))}
WalkAll(dirs) ==
    IF dirs = <<>> THEN {<<>>}
    ELSE {w \o rest : w \in Walks(Head(dirs)), rest \in WalkAll(Tail(dirs))}

MakeDirsMut(dirs, path) ==
    dirs \cup {SubSeq(path, 1, k) : k \in 1..Len(path)} \cup {Append(path, <<"", "New">>)}
\* os.makedirs(path, exist_ok=True): the directory and its missing ancestors
MakeDirs(dirs, path) == dirs \cup {SubSeq(path, 1, k) : k \in 1..Len(path)}

\* a symbolic link By Author/<sub>/<name> or By Year/<decade>/<sub>/<name>
\* whose relative target is the file <name> in directory target
Link(index, sub, name, target) ==
    [index |-> index, sub |-> sub, name |-> name, target |-> target]

SamePath(l, m) == l.index = m.index /\ l.sub = m.sub /\ l.name = m.name

\* re.match(r'^\d{4}$', year)
ValidYear(year) == year \in {"1984", "1990"}

\* update_author_symlinks(dst, library_root): one link per author
AuthorLinks(dst) == {Link("author", a, dst.name, dst.dir) : a \in ExtractAuthors(dst.name)}

\* update_year_symlinks(dst, library_root, meta_map)
YearLinks(dst, meta) ==
    IF /\ AsinOf(dst.name) # ""
       /\ AsinOf(dst.name) \in DOMAIN meta
       /\ ValidYear(meta[AsinOf(dst.name)].year)
    THEN {Link("year", meta[AsinOf(dst.name)].year, dst.name, dst.dir)}
    ELSE {}

\* unlink an existing link of the same path, then symlink
UpdateLinks(ls, new) == {l \in ls : \A m \in new : ~SamePath(l, m)} \cup new

HistInit ==
    [moved |-> FALSE, prev_ok |-> FALSE, failed_any |-> FALSE, last_move |-> "none",
     overwrote |-> FALSE, fresh |-> {}, wiped |-> FALSE, synced |-> FALSE,
     saved |-> FALSE]

\* the variables of the functions under test
PureVars == <<rs_code, rs_result, results, pareto_results>>

\* an input file: "ok" with its parsed content, "missing", or "corrupt" (the
\* file is there and is not valid JSON)
InputFile(state, data) == [state |-> state, data |-> data]

\* json.load raises json.JSONDecodeError, which 'except FileNotFoundError' lets through
LoaderRaises(file) == file.state = "corrupt"

\* load_ddc_index(index_path): [] when the file is not found
LoadDdcIndex(file) == IF file.state = "ok" THEN file.data ELSE <<>>

\* load_lt_metadata(lt_path): {} when the file is not found
LoadLtMetadata(file) == IF file.state = "ok" THEN file.data ELSE EmptyMap

\* load_json_map(path): {} when the file does not exist or is corrupted
LoadJsonMap(state, content) == IF state = "ok" THEN content ELSE EmptyMap

\* main(), lines 467-486: parse the arguments and load the inputs; the run
\* returns when the library root does not exist and ends with a traceback when
\* a loader raises
StartRun ==
    /\ pc \in {"start", "done", "aborted", "exit"}
    /\ dry_run' \in BOOLEAN
    /\ LET raises == LoaderRaises(inputs.ddc) \/ LoaderRaises(inputs.lt)
           loads == inputs.root /\ ~raises
       IN /\ ddc_tree' = IF loads THEN LoadDdcIndex(inputs.ddc) ELSE <<>>
          /\ meta_map' = IF loads THEN LoadLtMetadata(inputs.lt) ELSE EmptyMap
          /\ manual_map' = IF loads THEN LoadJsonMap(inputs.manual, manual_file)
                           ELSE EmptyMap
          /\ pc' = IF ~inputs.root THEN "exit"
                   ELSE IF raises THEN "aborted" ELSE "reset_author"
    /\ all_files' = <<>> /\ vtree' = <<>> /\ map_updated' = FALSE
    /\ todo' = <<>> /\ cur' = <<>> /\ visited' = EmptyMap
    /\ hist' = [hist EXCEPT !.moved = FALSE, !.failed_any = FALSE, !.last_move = "none",
                            !.overwrote = FALSE, !.fresh = {}, !.wiped = FALSE,
                            !.saved = FALSE, !.prev_ok = @ /\ pc' = "reset_author"]
    /\ UNCHANGED <<threshold, manual_file, fs_files, fs_dirs, links, fs_faulty>>
    /\ UNCHANGED PureVars
    /\ UNCHANGED inputs

\* the operator gives a code to an unresolved entry of manual_ddc_map.json
EditCodes == {StrNum(1)}

OperatorEdit ==
    /\ pc \in {"start", "done", "aborted", "exit"}
    /\ inputs.manual = "ok"
    /\ \E name \in DOMAIN manual_file : \E code \in EditCodes :
          /\ manual_file[name] = NoneCode
          /\ manual_file' = [manual_file EXCEPT ![name] = code]
    /\ hist' = [hist EXCEPT !.prev_ok = FALSE]
    /\ pc' = "start"
    /\ UNCHANGED <<dry_run, threshold, ddc_tree, meta_map, manual_map, fs_files,
                   fs_dirs, links, all_files, vtree, map_updated, todo, cur, visited,
                   fs_faulty>>
    /\ UNCHANGED PureVars
    /\ UNCHANGED inputs

WipesIndexMut(exists, dry) == FALSE
\* the index directory is renamed away and deleted: it exists and this is no dry run
WipesIndex(exists, dry) == exists /\ ~dry

\* reset_author_dir / reset_year_dir
ResetDir(index, dir, next_pc) ==
    /\ links' = IF WipesIndex(dir \in fs_dirs, dry_run)
                THEN {l \in links : l.index # index} ELSE links
    /\ fs_files' = IF WipesIndex(dir \in fs_dirs, dry_run)
                   THEN {f \in fs_files : ~IsPrefix(dir, f.dir)} ELSE fs_files
    /\ fs_dirs' = IF dry_run THEN fs_dirs ELSE fs_dirs \cup {dir}
    /\ hist' = [hist EXCEPT !.wiped = @ \/ links' # links]
    /\ pc' = next_pc
    /\ UNCHANGED <<dry_run, threshold, ddc_tree, meta_map, manual_map, manual_file,
                   all_files, vtree, map_updated, todo, cur, visited, fs_faulty>>
    /\ UNCHANGED PureVars
    /\ UNCHANGED inputs

ResetAuthorDir == pc = "reset_author" /\ ResetDir("author", ByAuthorDir, "reset_year")

ResetYearDir == pc = "reset_year" /\ ResetDir("year", ByYearDir, "scan")

\* main(), lines 493-507
Scan ==
    /\ pc = "scan"
    /\ all_files' \in Walks(LibraryRoot)
    /\ pc' = "build"
    /\ UNCHANGED <<dry_run, threshold, ddc_tree, meta_map, manual_map, manual_file,
                   fs_files, fs_dirs, links, vtree, map_updated, todo, cur, visited,
                   fs_faulty, hist>>
    /\ UNCHANGED PureVars
    /\ UNCHANGED inputs

\* main(), line 511
Build ==
    /\ pc = "build"
    /\ LET r == BuildVirtualTree(all_files, meta_map, manual_map, ddc_tree)
       IN /\ vtree' = r.tree
          /\ manual_map' = r.manual
          /\ map_updated' = r.updated
    /\ pc' = "save"
    /\ UNCHANGED <<dry_run, threshold, ddc_tree, meta_map, manual_file, fs_files,
                   fs_dirs, links, all_files, todo, cur, visited, fs_faulty, hist>>
    /\ UNCHANGED PureVars
    /\ UNCHANGED inputs

TopLevelMut(tree) == <<<<>>>>
\* the top-level children of the virtual root, in insertion order (line 525)
TopLevel(tree) == [k \in 1..Len(tree[<<>>].children) |-> <<tree[<<>>].children[k]>>]

\* main(), lines 513-525: save the map when it was updated, then start distributing
SaveMap ==
    /\ pc = "save"
    /\ \E written \in (IF fs_faulty THEN BOOLEAN ELSE {TRUE}) :
          LET saves == map_updated /\ ~dry_run
          IN /\ manual_file' = IF saves /\ written THEN manual_map ELSE manual_file
             /\ inputs' = IF saves /\ written THEN [inputs EXCEPT !.manual = "ok"]
                          ELSE inputs
             /\ hist' = [hist EXCEPT !.saved = saves /\ written,
                                     !.synced = IF dry_run THEN @
                                                ELSE ~saves \/ written]
    /\ todo' = TopLevel(vtree)
    /\ pc' = "distribute"
    /\ UNCHANGED <<dry_run, threshold, ddc_tree, meta_map, manual_map, fs_files,
                   fs_dirs, links, all_files, vtree, map_updated, cur, visited, fs_faulty>>
    /\ UNCHANGED PureVars

RealizesFolderMut(content, dry) == content
\* lines 351-353: 'if has_content_here or active_subfolders: if not dry_run:'
RealizesFolder(content, dry) == content /\ ~dry

\* balance_and_execute, lines 328-359: enter the call for the node on top of the stack
Visit ==
    /\ pc = "distribute"
    /\ todo # <<>>
    /\ LET b == Balance(vtree, Head(todo), threshold)
           realize == RealizesFolder(b.has_content_here \/ b.active_subfolders # {},
                                     dry_run)
       IN /\ cur' = b @@ [rest |-> b.files_staying]
          /\ visited' = Put(visited, Head(todo), b)
          /\ fs_dirs' = IF realize THEN MakeDirs(fs_dirs, vtree[Head(todo)].full_path)
                        ELSE fs_dirs
    /\ todo' = Tail(todo)
    /\ pc' = "moving"
    /\ UNCHANGED <<dry_run, threshold, ddc_tree, meta_map, manual_map, manual_file,
                   fs_files, links, all_files, vtree, map_updated, fs_faulty, hist>>
    /\ UNCHANGED PureVars
    /\ UNCHANGED inputs

\* what shutil.move(src, dst) can do: "ok", shutil.Error, or another OSError
MoveOutcomes(src) ==
    IF src \notin fs_files THEN {"oserror"}
    ELSE IF fs_faulty THEN {"ok", "shutil_error", "oserror"} ELSE {"ok"}

CaughtMut(outcome) == outcome \in {"shutil_error", "oserror"}
\* 'except shutil.Error as e'
Caught(outcome) == outcome = "shutil_error"

\* balance_and_execute, lines 361-377: one iteration of the loop over files_staying
MoveFile ==
    /\ pc = "moving"
    /\ cur.rest # <<>>
    /\ LET src == Head(cur.rest)
           dst == FileInfo(vtree[cur.node].full_path, src.name)
           new_links == AuthorLinks(dst) \cup YearLinks(dst, meta_map)
       IN \E outcome \in (IF src = dst THEN {"same"}
                          ELSE IF dry_run THEN {"print"} ELSE MoveOutcomes(src)) :
            IF outcome = "ok" \/ outcome = "same" \/ outcome = "print" \/ Caught(outcome)
            THEN /\ fs_files' = IF outcome = "ok" THEN (fs_files \ {src}) \cup {dst}
                                ELSE fs_files
                 /\ links' = IF dry_run THEN links ELSE UpdateLinks(links, new_links)
                 /\ hist' = [hist EXCEPT
                               !.moved = @ \/ outcome = "ok",
                               !.failed_any = @ \/ outcome = "shutil_error",
                               !.last_move = outcome,
                               !.overwrote = @ \/ (outcome = "ok" /\ dst \in fs_files),
                               !.fresh = IF dry_run THEN @ ELSE @ \cup new_links]
                 /\ cur' = [cur EXCEPT !.rest = Tail(@)]
                 /\ pc' = "moving"
            ELSE /\ hist' = [hist EXCEPT !.failed_any = TRUE, !.last_move = outcome,
                                         !.prev_ok = FALSE]
                 /\ pc' = "aborted"
                 /\ UNCHANGED <<fs_files, links, cur>>
    /\ UNCHANGED <<dry_run, threshold, ddc_tree, meta_map, manual_map, manual_file,
                   fs_dirs, all_files, vtree, map_updated, todo, visited, fs_faulty>>
    /\ UNCHANGED PureVars
    /\ UNCHANGED inputs

RecurseMut ==
    /\ pc = "moving"
    /\ cur.rest = <<>>
    /\ \E order \in Perms(SeqRange(vtree[cur.node].children)) :
          todo' = [k \in 1..Len(order) |-> Append(cur.node, order[k])] \o todo
    /\ cur' = <<>>
    /\ pc' = "distribute"
    /\ UNCHANGED <<dry_run, threshold, ddc_tree, meta_map, manual_map, manual_file,
                   fs_files, fs_dirs, links, all_files, vtree, map_updated, visited,
                   fs_faulty, hist>>
    /\ UNCHANGED PureVars
    /\ UNCHANGED inputs
\* balance_and_execute, lines 380-382: the calls for the active subfolders are
\* made in the iteration order of a set, before the caller goes on
Recurse ==
    /\ pc = "moving"
    /\ cur.rest = <<>>
    /\ \E order \in Perms(cur.active_subfolders) :
          todo' = [k \in 1..Len(order) |-> Append(cur.node, order[k])] \o todo
    /\ cur' = <<>>
    /\ pc' = "distribute"
    /\ UNCHANGED <<dry_run, threshold, ddc_tree, meta_map, manual_map, manual_file,
                   fs_files, fs_dirs, links, all_files, vtree, map_updated, visited,
                   fs_faulty, hist>>
    /\ UNCHANGED PureVars
    /\ UNCHANGED inputs

HasFileBelow(dir) == \E f \in fs_files : IsPrefix(dir, f.dir)

\* remove_empty_dirs(root_dir, dry_run), bottom up; the index directories stay
RemoveEmptyDirs ==
    /\ pc = "distribute"
    /\ todo = <<>>
    /\ fs_dirs' = IF dry_run THEN fs_dirs
                  ELSE {d \in fs_dirs : d \in {ByAuthorDir, ByYearDir} \/ HasFileBelow(d)}
    /\ hist' = [hist EXCEPT !.prev_ok = IF dry_run THEN @
                                          ELSE ~hist.failed_any /\ ~hist.overwrote]
    /\ pc' = "done"
    /\ UNCHANGED <<dry_run, threshold, ddc_tree, meta_map, manual_map, manual_file,
                   fs_files, links, all_files, vtree, map_updated, todo, cur, visited,
                   fs_faulty>>
    /\ UNCHANGED PureVars
    /\ UNCHANGED inputs

-----------------------------------------------------------------------------
(* The runs of main() over a small library                                  *)

RangeDef(p, num, i) ==
    [parent |-> p, number |-> num, has_id |-> TRUE, id |-> i, description |-> "d"]

\* ranges 1 {2, 3 {4}, 5} and 6; a code below 1 resolves to nothing
MainTable ==
    <<RangeDef(0, StrNum(1), 1), RangeDef(1, StrNum(2), 2), RangeDef(1, StrNum(3), 3),
      RangeDef(3, StrNum(4), 4), RangeDef(1, StrNum(5), 5), RangeDef(0, StrNum(6), 6)>>

MetaEntry(ddc, year) == [ddc |-> ddc, year |-> year]

MainMeta ==
    [a \in {"K1", "K2", "K3"} |->
        CASE a = "K1" -> MetaEntry(StrNum(2), "1984")
          [] a = "K2" -> MetaEntry(StrNum(3), "")
          [] a = "K3" -> MetaEntry(Absent, "1990")]

\* an earlier export, made before the book K1 was catalogued
OlderMeta == [a \in {"K2", "K3"} |-> MainMeta[a]]

N1 == FileName(1, "K1", "Ann")
N2 == FileName(2, "K2", "Ann")
N4 == FileName(4, "", "")

Inbox == <<<<"", "Inbox">>>>

\* the contents manual_ddc_map.json can start with
ManualEntries(name) ==
    CASE name = N4 -> {Absent, StrNum(1)}
      [] OTHER -> {Absent}

ManualOf(entries) ==
    [n \in {m \in DOMAIN entries : entries[m] # Absent} |-> entries[n]]

StaleLink == Link("author", "Zed", N4, Inbox)

\* a regular file somebody left next to the stale link
StrayFile == FileInfo(LinkDir(StaleLink), FileName(9, "", ""))

\* between two runs the metadata is exported again, now with the book K1
MetadataExport ==
    /\ pc \in {"start", "done", "aborted", "exit"}
    /\ inputs.lt = InputFile("ok", OlderMeta)
    /\ inputs' = [inputs EXCEPT !.lt = InputFile("ok", MainMeta)]
    /\ hist' = [hist EXCEPT !.prev_ok = FALSE]
    /\ pc' = "start"
    /\ UNCHANGED <<dry_run, threshold, ddc_tree, meta_map, manual_map, manual_file,
                   fs_files, fs_dirs, links, all_files, vtree, map_updated, todo, cur,
                   visited, fs_faulty>>
    /\ UNCHANGED PureVars

Init ==
    /\ pc = "start"
    /\ dry_run = FALSE
    /\ threshold \in 0..MaxThreshold
    /\ ddc_tree = <<>>
    /\ meta_map = EmptyMap
    /\ \E export \in {MainMeta, OlderMeta} :
          inputs = [root |-> TRUE, ddc |-> InputFile("ok", MainTable),
                    lt |-> InputFile("ok", export), manual |-> "ok"]
    /\ manual_map = EmptyMap
    /\ \E e4 \in ManualEntries(N4) : manual_file = ManualOf([n \in {N4} |-> e4])
    /\ \E names \in SUBSET {N1, N2, N4} : \E twice \in SUBSET {N1} :
          /\ names # {}
          /\ Cardinality(names) + Cardinality(twice) <= MaxFiles
          /\ \E stale \in BOOLEAN :
                /\ fs_files = {FileInfo(Inbox, n) : n \in names}
                                  \cup {FileInfo(LibraryRoot, n) : n \in twice}
                                  \cup (IF stale THEN {StrayFile} ELSE {})
                /\ links = IF stale THEN {StaleLink} ELSE {}
                /\ fs_dirs = {Inbox} \cup (IF stale THEN {ByAuthorDir} ELSE {})
    /\ all_files = <<>> /\ vtree = <<>> /\ map_updated = FALSE
    /\ todo = <<>> /\ cur = <<>> /\ visited = EmptyMap
    /\ rs_code = NoneCode /\ rs_result = <<>>
    /\ results = <<>> /\ pareto_results = <<>>
    /\ fs_faulty \in BOOLEAN
    /\ hist = HistInit

Next ==
    \/ StartRun
    \/ OperatorEdit
    \/ MetadataExport
    \/ ResetAuthorDir
    \/ ResetYearDir
    \/ Scan
    \/ Build
    \/ SaveMap
    \/ Visit
    \/ MoveFile
    \/ Recurse
    \/ RemoveEmptyDirs

Spec == Init /\ [][Next]_vars

-----------------------------------------------------------------------------
(* The runs of main() when the library root or an input file is unusable    *)

InputStates == {"ok", "missing", "corrupt"}

\* the library root does not exist, or it holds two files and an older index
LibraryOf(root) ==
    /\ fs_files = IF root THEN {FileInfo(Inbox, N1), FileInfo(Inbox, N4)} ELSE {}
    /\ fs_dirs = IF root THEN {Inbox, ByAuthorDir} ELSE {}
    /\ links = IF root THEN {StaleLink} ELSE {}

InitInputs ==
    /\ pc = "start"
    /\ dry_run = FALSE
    /\ threshold = 1
    /\ ddc_tree = <<>>
    /\ meta_map = EmptyMap
    /\ manual_map = EmptyMap
    /\ \E root \in BOOLEAN : \E ds \in InputStates : \E ls \in InputStates :
       \E ms \in InputStates : \E export \in {MainMeta, OlderMeta} :
       \E e4 \in ManualEntries(N4) :
          /\ ls # "ok" => export = MainMeta
          /\ ms # "ok" => e4 = Absent
          /\ inputs = [root |-> root,
                       ddc |-> InputFile(ds, IF ds = "ok" THEN MainTable ELSE <<>>),
                       lt |-> InputFile(ls, IF ls = "ok" THEN export ELSE EmptyMap),
                       manual |-> ms]
          /\ manual_file = ManualOf([n \in {N4} |-> e4])
          /\ LibraryOf(root)
    /\ all_files = <<>> /\ vtree = <<>> /\ map_updated = FALSE
    /\ todo = <<>> /\ cur = <<>> /\ visited = EmptyMap
    /\ rs_code = NoneCode /\ rs_result = <<>>
    /\ results = <<>> /\ pareto_results = <<>>
    /\ fs_faulty = FALSE
    /\ hist = HistInit

SpecInputs == InitInputs /\ [][Next]_vars

-----------------------------------------------------------------------------
(* Specification of build_virtual_tree as a function under test             *)

B1 == FileName(1, "K1", "")
B2 == FileName(2, "", "")
B3 == FileName(3, "K9", "")

BuildFiles == {FileInfo(d, n) : d \in {Inbox, LibraryRoot}, n \in {B1, B2, B3}}

\* what load_lt_metadata can have stored for K1: str(code).strip(), or no 'ddc'
BuildMetaDdc == {Absent, StrEmpty, StrText, StrNum(0), StrNum(2), StrNum(4)}

BuildManualCodes == {Absent, NoneCode, JsonNum(0), StrNum(0), StrNum(5)}

NotRunning ==
    /\ todo = <<>> /\ cur = <<>> /\ visited = <<>>
    /\ rs_code = NoneCode /\ rs_result = <<>>
    /\ results = <<>> /\ pareto_results = <<>>
    /\ inputs = <<>>
    /\ fs_faulty = FALSE
    /\ hist = HistInit

InitBuild ==
    /\ pc = "build"
    /\ dry_run = FALSE
    /\ threshold = 0
    /\ ddc_tree = MainTable
    /\ \E present \in BOOLEAN : \E ddc \in BuildMetaDdc :
          meta_map = [a \in (IF present THEN {"K1"} ELSE {}) |-> MetaEntry(ddc, "")]
    /\ \E e1 \in {Absent, StrNum(5)} : \E rest \in [{B2, B3} -> BuildManualCodes] :
          /\ manual_map = ManualOf([n \in {B1, B2, B3} |-> IF n = B1 THEN e1 ELSE rest[n]])
          /\ manual_file = manual_map
    /\ \E n \in 1..MaxBuildFiles : \E fl \in [1..n -> BuildFiles] :
          /\ \A i, j \in 1..n : fl[i] = fl[j] => i = j
          /\ all_files = fl
          /\ fs_files = {fl[i] : i \in 1..n}
    /\ fs_dirs = {Inbox} /\ links = {}
    /\ vtree = <<>> /\ map_updated = FALSE
    /\ NotRunning

NextBuild == Build

SpecBuild == InitBuild /\ [][NextBuild]_vars

-----------------------------------------------------------------------------
(* Specification of balance_and_execute over the trees build_virtual_tree   *)
(* produces                                                                 *)

TreeFile(i) == FileInfo(Inbox, FileName(i, "", ""))

\* a call of balance_and_execute is about to be made for every top-level child
BalanceScenario(files, manual, tree, limit) ==
    /\ all_files = files
    /\ fs_files = SeqRange(files)
    /\ manual_map = manual
    /\ manual_file = manual
    /\ vtree = tree
    /\ todo = TopLevel(tree)
    /\ threshold = limit

\* n files in scan order, file i with the code codes[i] in the manual map
TreeScenario(n, codes, limit) ==
    LET files == [i \in 1..n |-> TreeFile(i)]
        manual == [name \in {f.name : f \in SeqRange(files)} |-> StrNum(codes[name.title])]
    IN BalanceScenario(files, manual,
                       BuildVirtualTree(files, EmptyMap, manual, MainTable).tree, limit)

\* section 8 of the description: threshold 10, 3 direct files, children of 8 and
\* 15 files; the tree build_virtual_tree makes of codes 1 (3 files), 2 (8), 3 (15)
ExampleCodes == [i \in 1..26 |-> IF i <= 3 THEN 1 ELSE IF i <= 11 THEN 2 ELSE 3]

ExampleNode(id, full_path, first, last, children) ==
    [LibraryNode(GetFolderName(MainTable[id]), full_path, id)
        EXCEPT !.files = [i \in 1..(last - first + 1) |-> TreeFile(first + i - 1)],
               !.children = children]

ExampleTree ==
    LET top == <<GetFolderName(MainTable[1])>>
    IN (<<>> :> [RootNode EXCEPT !.children = <<1>>])
       @@ (<<1>> :> ExampleNode(1, top, 1, 3, <<2, 3>>))
       @@ (<<1, 2>> :> ExampleNode(2, Append(top, GetFolderName(MainTable[2])), 4, 11, <<>>))
       @@ (<<1, 3>> :> ExampleNode(3, Append(top, GetFolderName(MainTable[3])), 12, 26, <<>>))

ExampleScenario ==
    LET files == [i \in 1..26 |-> TreeFile(i)]
        manual == [name \in {f.name : f \in SeqRange(files)} |->
                      StrNum(ExampleCodes[name.title])]
    IN BalanceScenario(files, manual, ExampleTree, 10)

InitBalance ==
    /\ pc = "distribute"
    /\ dry_run \in BOOLEAN
    /\ ddc_tree = MainTable
    /\ meta_map = EmptyMap
    /\ \/ \E n \in 1..MaxTreeFiles : \E codes \in [1..n -> 1..6] :
             \E limit \in 0..MaxLimit : TreeScenario(n, codes, limit)
       \/ ExampleScenario
    /\ fs_dirs = {Inbox} /\ links = {}
    /\ map_updated = FALSE
    /\ cur = <<>> /\ visited = EmptyMap
    /\ rs_code = NoneCode /\ rs_result = <<>>
    /\ results = <<>> /\ pareto_results = <<>>
    /\ inputs = <<>>
    /\ fs_faulty = FALSE
    /\ hist = HistInit

NextBalance ==
    \/ Visit
    \/ MoveFile
    \/ Recurse

SpecBalance == InitBalance /\ [][NextBalance]_vars

-----------------------------------------------------------------------------
(* Specification of resolve_path_stack as a function under test             *)

NumberValues ==
    {Absent, StrText} \cup {StrNum(n) : n \in 0..MaxNum}

CodeValues ==
    {NoneCode, StrEmpty, StrText, JsonNum(0)} \cup {StrNum(n) : n \in 0..(MaxNum + 1)}

\* a table of n ranges, each range below an earlier one or at top level
Parents(n) == {f \in [1..n -> 0..(n - 1)] : \A i \in 1..n : f[i] < i}

TableOf(n, ps, nums) == [i \in 1..n |-> RangeDef(ps[i], nums[i], i)]

Idle ==
    /\ dry_run = FALSE /\ threshold = 0
    /\ meta_map = <<>> /\ manual_map = <<>> /\ manual_file = <<>>
    /\ fs_files = {} /\ fs_dirs = {} /\ links = {}
    /\ all_files = <<>> /\ vtree = <<>> /\ map_updated = FALSE
    /\ todo = <<>> /\ cur = <<>> /\ visited = <<>> /\ hist = <<>>
    /\ inputs = <<>>
    /\ fs_faulty = FALSE

InitResolve ==
    /\ pc = "resolve_call"
    /\ \E n \in 1..MaxNodes : \E ps \in Parents(n) : \E nums \in [1..n -> NumberValues] :
          ddc_tree = TableOf(n, ps, nums)
    /\ rs_code \in CodeValues
    /\ rs_result = <<>>
    /\ results = <<>> /\ pareto_results = <<>>
    /\ Idle

Resolve ==
    /\ pc = "resolve_call"
    /\ rs_result' = ResolvePathStack(rs_code, ddc_tree)
    /\ pc' = "resolve_ret"
    /\ UNCHANGED <<dry_run, threshold, ddc_tree, meta_map, manual_map, manual_file,
                   fs_files, fs_dirs, links, all_files, vtree, map_updated, todo,
                   cur, visited, rs_code, fs_faulty, hist, inputs, results,
                   pareto_results>>

NextResolve == Resolve

SpecResolve == InitResolve /\ [][NextResolve]_vars

-----------------------------------------------------------------------------
(* benchmark_compression.py: get_pareto_frontier as a function under test   *)

\* the fields of a BenchmarkResult the function reads, and the compressor
BenchmarkResult(file, compressor, compressed_size, comp_time) ==
    [file |-> file, compressor |-> compressor, compressed_size |-> compressed_size,
     comp_time |-> comp_time]

\* the keys of by_file in insertion order: each file at its first result
RECURSIVE FileOrder(_)
FileOrder(rs) ==
    IF rs = <<>> THEN <<>>
    ELSE LET before == FileOrder(SubSeq(rs, 1, Len(rs) - 1))
             fname == rs[Len(rs)].file
         IN IF fname \in SeqRange(before) THEN before ELSE Append(before, fname)

\* by_file[fname]
ByFile(rs, fname) == SelectSeq(rs, LAMBDA r: r.file = fname)

\* key=lambda x: (x.compressed_size, x.comp_time), compared as tuples
KeyLeq(a, b) ==
    \/ a.compressed_size < b.compressed_size
    \/ a.compressed_size = b.compressed_size /\ a.comp_time <= b.comp_time

\* sorted() is stable: x goes after every element whose key is <= its key
RECURSIVE InsertByKey(_, _)
InsertByKey(sorted, x) ==
    IF sorted = <<>> THEN <<x>>
    ELSE IF KeyLeq(Head(sorted), x)
         THEN <<Head(sorted)>> \o InsertByKey(Tail(sorted), x)
         ELSE <<x>> \o sorted

RECURSIVE SortedGroup(_)
SortedGroup(group) ==
    IF group = <<>> THEN <<>>
    ELSE InsertByKey(SortedGroup(SubSeq(group, 1, Len(group) - 1)), group[Len(group)])

\* float('inf'): above every time
Infinity == MaxMeasure + 1

\* 'if r.comp_time < min_time_seen'
IsFaster(comp_time, min_time_seen) == comp_time < min_time_seen

\* the loop over sorted_group (lines 300-307)
RECURSIVE FrontierLoop(_, _, _, _)
FrontierLoop(sorted_group, i, min_time_seen, frontier) ==
    IF i > Len(sorted_group) THEN frontier
    ELSE IF IsFaster(sorted_group[i].comp_time, min_time_seen)
         THEN FrontierLoop(sorted_group, i + 1, sorted_group[i].comp_time,
                           Append(frontier, sorted_group[i]))
         ELSE FrontierLoop(sorted_group, i + 1, min_time_seen, frontier)

\* get_pareto_frontier(results)
GetParetoFrontier(rs) ==
    IF rs = <<>> THEN <<>>
    ELSE LET files == FileOrder(rs)
         IN Flatten([k \in 1..Len(files) |->
                        FrontierLoop(SortedGroup(ByFile(rs, files[k])), 1, Infinity, <<>>)])

BenchFiles == {"a", "b"}

InitPareto ==
    /\ pc = "pareto_call"
    /\ \E n \in 0..MaxResults :
       \E fs \in [1..n -> BenchFiles] :
       \E sizes \in [1..n -> 1..MaxMeasure] :
       \E times \in [1..n -> 1..MaxMeasure] :
          results = [i \in 1..n |-> BenchmarkResult(fs[i], i, sizes[i], times[i])]
    /\ pareto_results = <<>>
    /\ ddc_tree = <<>>
    /\ rs_code = NoneCode /\ rs_result = <<>>
    /\ Idle

Pareto ==
    /\ pc = "pareto_call"
    /\ pareto_results' = GetParetoFrontier(results)
    /\ pc' = "pareto_ret"
    /\ UNCHANGED <<dry_run, threshold, ddc_tree, meta_map, manual_map, manual_file,
                   fs_files, fs_dirs, links, all_files, vtree, map_updated, todo,
                   cur, visited, rs_code, rs_result, fs_faulty, hist, inputs, results>>

NextPareto == Pareto

SpecPareto == InitPareto /\ [][NextPareto]_vars

-----------------------------------------------------------------------------
(* C1 *)

RECURSIVE Depth(_, _)
Depth(table, p) ==
    LET subs == Subordinates(table, p)
    IN IF subs = <<>> THEN 0
       ELSE 1 + (CHOOSE m \in 0..Len(table) :
                    /\ \E k \in 1..Len(subs) : Depth(table, subs[k]) = m
                    /\ \A k \in 1..Len(subs) : Depth(table, subs[k]) <= m)

\* the siblings a range at position k of a chain was chosen among
SiblingsAt(table, chain, k) ==
    SeqRange(Subordinates(table, IF k = 1 THEN 0 ELSE chain[k - 1]))

Qualifies(table, i, target_val) ==
    HasNumber(table, i) /\ NumberOf(table, i) <= target_val

TightestChain(table, chain, target_val) ==
    /\ \A k \in 1..Len(chain) :
          /\ chain[k] \in SiblingsAt(table, chain, k)
          /\ Qualifies(table, chain[k], target_val)
          /\ \A s \in SiblingsAt(table, chain, k) :
                Qualifies(table, s, target_val)
                    => NumberOf(table, s) <= NumberOf(table, chain[k])
    /\ \A s \in SiblingsAt(table, chain, Len(chain) + 1) :
          ~Qualifies(table, s, target_val)
    /\ Len(chain) <= Depth(table, 0)

\* the spec's scenario, bounds 0 and 500 scaled to 0 and 2: 520 ~ 3, 050 ~ 1
ExampleTable == <<RangeDef(0, StrNum(0), 1), RangeDef(0, StrNum(2), 2)>>

\* C1: for a non-empty code the returned chain picks at every depth the sibling
\* with the largest bound <= the code's value, ends where no sibling qualifies
\* and is no longer than the table is deep; 520 gives [id 5], 050 gives [id 0].
C1_TightestBoundChain ==
    (pc = "resolve_ret" /\ Truthy(rs_code)) =>
        /\ TightestChain(ddc_tree, rs_result, ParseDdcNum(rs_code))
        /\ (ddc_tree = ExampleTable /\ rs_code = StrNum(3)) => rs_result = <<2>>
        /\ (ddc_tree = ExampleTable /\ rs_code = StrNum(1)) => rs_result = <<1>>

\* a chain of depth 2 was resolved past a sibling with a smaller bound
C1_Witness ==
    /\ pc = "resolve_ret" /\ Truthy(rs_code)
    /\ Len(rs_result) >= 2
    /\ \E s \in SiblingsAt(ddc_tree, rs_result, 2) :
          /\ s # rs_result[2]
          /\ Qualifies(ddc_tree, s, ParseDdcNum(rs_code))

-----------------------------------------------------------------------------
(* C2, C4: the decisions of balance_and_execute *)

Children(node) == SeqRange(vtree[node].children)

\* the number of files recursively below child key of node
SizeOf(node, key) ==
    Cardinality({f \in SeqRange(all_files) :
                    \E n \in DOMAIN vtree :
                       IsPrefix(Append(node, key), n) /\ f \in SeqRange(vtree[n].files)})

TotalOf(node) ==
    Cardinality({f \in SeqRange(all_files) :
                    \E n \in DOMAIN vtree :
                       IsPrefix(node, n) /\ f \in SeqRange(vtree[n].files)})

PositionIn(s, x) == CHOOSE k \in 1..Len(s) : s[k] = x

RECURSIVE SumSizes(_, _, _)
SumSizes(node, keys, m) ==
    IF m = 0 THEN 0 ELSE SizeOf(node, keys[m]) + SumSizes(node, keys, m - 1)

\* C2 as stated: a visited node keeps at most threshold files or has no active subfolder
C2_Original ==
    \A node \in DOMAIN visited :
        \/ Len(visited[node].files_staying) <= threshold
        \/ visited[node].active_subfolders = {}

\* C2 (amended): every visited node keeps at most threshold files in its own
\* folder, or every one of its children was kept as an active subfolder, so that
\* only the node's own direct files stay (a node without children included).
C2_WithinThresholdOrAllActive ==
    \A node \in DOMAIN visited :
        \/ Len(visited[node].files_staying) <= threshold
        \/ /\ visited[node].active_subfolders = Children(node)
           /\ visited[node].files_staying = vtree[node].files

\* a visited node over the threshold although all its children were peeled off
C2_Witness ==
    \E node \in DOMAIN visited :
        /\ Len(visited[node].files_staying) > threshold
        /\ visited[node].active_subfolders # {}
        /\ visited[node].active_subfolders = Children(node)

\* C4: at each visited node the children are ordered by descending recursive file
\* count, ties in insertion order; the active set is the shortest prefix of that
\* order after which the remaining total is <= threshold, or all children when
\* there is none; with threshold 10, 3 direct files and children of 8 and 15
\* both children are active and the 3 direct files stay.
C4_GreedyPrefix ==
    \A node \in DOMAIN visited :
        LET b == visited[node]
            keys == b.sorted_keys
            m == Cardinality(b.active_subfolders)
            remaining(k) == TotalOf(node) - SumSizes(node, keys, k)
        IN /\ Len(keys) = Len(vtree[node].children)
           /\ SeqRange(keys) = Children(node)
           /\ \A i, j \in 1..Len(keys) :
                 i < j => \/ SizeOf(node, keys[i]) > SizeOf(node, keys[j])
                          \/ /\ SizeOf(node, keys[i]) = SizeOf(node, keys[j])
                             /\ PositionIn(vtree[node].children, keys[i])
                                    < PositionIn(vtree[node].children, keys[j])
           /\ b.active_subfolders = {keys[k] : k \in 1..m}
           /\ \A k \in 0..(m - 1) : remaining(k) > threshold
           /\ remaining(m) <= threshold \/ m = Len(keys)
           /\ b.current_load = remaining(m)
           /\ (threshold = 10 /\ Len(all_files) = 26 /\ node = <<1>>) =>
                 /\ b.active_subfolders = {2, 3}
                 /\ b.files_staying = <<TreeFile(1), TreeFile(2), TreeFile(3)>>

\* two children of the same size, the first inserted is active and the other is not
C4_Witness ==
    \E node \in DOMAIN visited :
        \E k1, k2 \in Children(node) :
            /\ SizeOf(node, k1) = SizeOf(node, k2)
            /\ PositionIn(vtree[node].children, k1) < PositionIn(vtree[node].children, k2)
            /\ k1 \in visited[node].active_subfolders
            /\ k2 \notin visited[node].active_subfolders

-----------------------------------------------------------------------------
(* C5, C6: what build_virtual_tree does with each file *)

Built == pc = "save"

\* the node a file is attached to, as a set of key paths (empty when unattached)
AttachedAt(f) == {n \in DOMAIN vtree : f \in SeqRange(vtree[n].files)}

\* the key path of the deepest range of the chain a code resolves to
ChainKeys(code) ==
    LET chain == ResolvePathStack(code, ddc_tree)
    IN [k \in 1..Len(chain) |-> NodeKey(ddc_tree[chain[k]])]

\* where a file with this code belongs: on the node of its chain, or nowhere
PlaceOf(code) ==
    IF Truthy(code) /\ ChainKeys(code) # <<>> THEN {ChainKeys(code)} ELSE {}

InMeta(f) == AsinOf(f.name) # "" /\ AsinOf(f.name) \in DOMAIN meta_map

\* the 'ddc' of the file's metadata entry (None when the entry has none)
EntryCode(f) ==
    IF meta_map[AsinOf(f.name)].ddc = Absent THEN NoneCode
    ELSE meta_map[AsinOf(f.name)].ddc

\* manual_map was not consulted for f: f is placed by code and nothing was recorded
PlacedByMeta(f, code) ==
    /\ AttachedAt(f) = PlaceOf(code)
    /\ f.name \in DOMAIN manual_map => f.name \in DOMAIN manual_file

\* manual_map was consulted for f: its entry decides, a missing entry is recorded
PlacedByManual(f) ==
    /\ f.name \in DOMAIN manual_map
    /\ IF f.name \in DOMAIN manual_file
       THEN AttachedAt(f) = PlaceOf(manual_file[f.name])
       ELSE manual_map[f.name] = NoneCode /\ AttachedAt(f) = {}

\* C5 as stated: every file whose identifier is in meta_map is placed by the
\* entry's code, and manual_map is consulted for the other files only
C5_Original ==
    Built => \A f \in SeqRange(all_files) :
                IF InMeta(f) THEN PlacedByMeta(f, EntryCode(f)) ELSE PlacedByManual(f)

\* C5 (amended): a file whose bracketed identifier is in meta_map with a
\* non-empty code is placed by that code and manual_map is not consulted;
\* manual_map is consulted for every other file: no identifier, identifier not
\* in meta_map, or an entry without a code or with an empty one.
C5_MetaCodeFirst ==
    Built => \A f \in SeqRange(all_files) :
                IF InMeta(f) /\ Truthy(EntryCode(f))
                THEN PlacedByMeta(f, EntryCode(f)) ELSE PlacedByManual(f)

\* a file placed by its metadata code although manual_map has another code for
\* it, next to a file whose metadata entry has no usable code
C5_Witness ==
    /\ Built
    /\ \E f \in SeqRange(all_files) :
          /\ InMeta(f) /\ Truthy(EntryCode(f))
          /\ f.name \in DOMAIN manual_file
          /\ PlaceOf(manual_file[f.name]) # PlaceOf(EntryCode(f))
          /\ AttachedAt(f) # {}
    /\ \E g \in SeqRange(all_files) : ~InMeta(g) /\ AttachedAt(g) # {}

\* C6: a file with no code from the metadata and no key in manual_map is recorded
\* with a null code, sets the modified flag and is attached nowhere; a file whose
\* non-empty code resolves to an empty chain is attached nowhere either, and the
\* call returns.
C6_UnknownAndUnresolved ==
    Built => \A f \in SeqRange(all_files) :
                /\ (~Truthy(MetaCode(f.name, meta_map)) /\ f.name \notin DOMAIN manual_file) =>
                      /\ f.name \in DOMAIN manual_map
                      /\ manual_map[f.name] = NoneCode
                      /\ map_updated
                      /\ AttachedAt(f) = {}
                /\ \A code \in {MetaCode(f.name, meta_map)}
                          \cup {manual_file[n] : n \in {f.name} \cap DOMAIN manual_file} :
                      (Truthy(code) /\ ResolvePathStack(code, ddc_tree) = <<>>
                          /\ (code = MetaCode(f.name, meta_map)
                                 \/ ~Truthy(MetaCode(f.name, meta_map))))
                      => AttachedAt(f) = {}

\* an unknown file was recorded next to a file whose code 0 lies below every range
C6_Witness ==
    /\ Built
    /\ \E f \in SeqRange(all_files) :
          /\ ~Truthy(MetaCode(f.name, meta_map)) /\ f.name \notin DOMAIN manual_file
          /\ map_updated
    /\ \E g \in SeqRange(all_files) :
          /\ g.name \in DOMAIN manual_file
          /\ ~Truthy(MetaCode(g.name, meta_map))
          /\ Truthy(manual_file[g.name])
          /\ ResolvePathStack(manual_file[g.name], ddc_tree) = <<>>

-----------------------------------------------------------------------------
(* C3, C7 - C10: runs of main() *)

\* the tree was built in this run and the map not yet saved
AfterBuild == pc = "save"

InRun == pc \notin {"start", "done", "aborted"}

\* C3: a non-dry run that follows a complete non-dry run (no move of which
\* failed or replaced another file), with the same threshold, metadata and manual
\* map, moves no file.
C3_SecondRunMovesNothing ==
    (hist.prev_ok /\ ~dry_run /\ InRun) => ~hist.moved

\* C7 as stated: a file with a null manual-map entry is attached nowhere; the map
\* is reported modified only when a scanned filename was not in it, and not in a
\* run that follows a run which saved it.
C7_Original ==
    AfterBuild =>
        /\ \A f \in SeqRange(all_files) :
              (f.name \in DOMAIN manual_file /\ manual_file[f.name] = NoneCode)
                  => AttachedAt(f) = {}
        /\ map_updated => \E f \in SeqRange(all_files) : f.name \notin DOMAIN manual_file
        /\ hist.synced => ~map_updated

\* C7 (amended): a file with a null manual-map entry and no non-empty code in
\* the metadata is attached nowhere in every run; the map is reported modified
\* only in a run that meets a filename not yet in it, it is rewritten only then,
\* and a run that follows a run which saved it reports it unmodified.
C7_NullEntryStaysUnplaced ==
    /\ AfterBuild =>
          /\ \A f \in SeqRange(all_files) :
                (/\ f.name \in DOMAIN manual_file
                 /\ manual_file[f.name] = NoneCode
                 /\ ~Truthy(MetaCode(f.name, meta_map)))
                    => AttachedAt(f) = {}
          /\ map_updated => \E f \in SeqRange(all_files) : f.name \notin DOMAIN manual_file
          /\ hist.synced => ~map_updated
    /\ (InRun /\ hist.saved) => map_updated

\* a rerun meets a file whose entry the previous run wrote as null
C7_Witness ==
    /\ AfterBuild /\ hist.synced /\ ~map_updated
    /\ \E f \in SeqRange(all_files) :
          /\ f.name \in DOMAIN manual_file
          /\ manual_file[f.name] = NoneCode
          /\ ~Truthy(MetaCode(f.name, meta_map))
          /\ AttachedAt(f) = {}

\* C8: a failed move does not abort the run
C8_FailedMoveContinues ==
    hist.last_move \in {"shutil_error", "oserror"} => pc # "aborted"

\* C9: in a dry run no step creates or removes a directory, moves a file,
\* creates or deletes a link or writes the manual map file.
C9_DryRunChangesNothing ==
    [][(dry_run /\ InRun) =>
          /\ fs_files' = fs_files
          /\ fs_dirs' = fs_dirs
          /\ links' = links
          /\ manual_file' = manual_file]_vars

\* a dry run is over that had a map to save, a folder to make and a file to move
C9_Witness ==
    /\ pc = "done" /\ dry_run /\ map_updated
    /\ \E node \in DOMAIN visited :
          /\ vtree[node].full_path \notin fs_dirs
          /\ \E f \in SeqRange(visited[node].files_staying) :
                f.dir # vtree[node].full_path
    /\ links # {}

\* the links update_author_symlinks and update_year_symlinks make for the files
\* staying at a visited node
DerivedLinks(node) ==
    UNION {AuthorLinks(FileInfo(vtree[node].full_path, f.name))
               \cup YearLinks(FileInfo(vtree[node].full_path, f.name), meta_map) :
           f \in SeqRange(visited[node].files_staying)}

-----------------------------------------------------------------------------
(* C11, C12: empty and invalid codes in resolve_path_stack *)

\* the tree build_virtual_tree makes of one file whose manual-map entry is code
TreeOfOneFile(code, table) ==
    BuildVirtualTree(<<FileInfo(Inbox, B2)>>, EmptyMap, (B2 :> code), table).tree

\* C11: for every table, the codes "" and None resolve to the empty chain, and
\* a file with such a code is attached to no node of the tree.
C11_EmptyCodeEmptyChain ==
    (pc = "resolve_ret" /\ rs_code \in {NoneCode, StrEmpty}) =>
        /\ rs_result = <<>>
        /\ \A n \in DOMAIN TreeOfOneFile(rs_code, ddc_tree) :
              /\ n = <<>>
              /\ TreeOfOneFile(rs_code, ddc_tree)[n].files = <<>>

\* an empty code was resolved over a table in which the code "0" has a chain
C11_Witness ==
    /\ pc = "resolve_ret" /\ rs_code \in {NoneCode, StrEmpty}
    /\ ResolvePathStack(StrNum(0), ddc_tree) # <<>>
    /\ DOMAIN TreeOfOneFile(StrNum(0), ddc_tree) # {<<>>}

\* the table with every bound that is not a numeric literal replaced by "0"
ZeroedTable(table) ==
    [i \in DOMAIN table |->
        IF table[i].number.kind = "strtext"
        THEN [table[i] EXCEPT !.number = StrNum(0)] ELSE table[i]]

\* C12: the call always returns a chain of ranges of the table; for a non-empty
\* code that is no numeric literal it returns the chain of the code "0", and a
\* bound that is no numeric literal acts as the bound "0".
C12_InvalidCodeIsZero ==
    pc = "resolve_ret" =>
        /\ \A k \in 1..Len(rs_result) : rs_result[k] \in 1..Len(ddc_tree)
        /\ rs_code = StrText => rs_result = ResolvePathStack(StrNum(0), ddc_tree)
        /\ rs_result = ResolvePathStack(rs_code, ZeroedTable(ddc_tree))

\* a textual code was resolved into a range whose bound is textual as well
C12_Witness ==
    /\ pc = "resolve_ret" /\ rs_code = StrText
    /\ \E k \in 1..Len(rs_result) : ddc_tree[rs_result[k]].number = StrText
    /\ \E i \in 1..Len(ddc_tree) :
          ddc_tree[i].number.kind = "strnum" /\ ddc_tree[i].number.val > 0

-----------------------------------------------------------------------------
(* C13: build_virtual_tree and the manual map *)

\* C13: after build_virtual_tree every key the map had is still there with its
\* value, and every new key is the name of a scanned file and has a null value.
C13_ManualMapOnlyGrows ==
    Built =>
        /\ \A n \in DOMAIN manual_file :
              n \in DOMAIN manual_map /\ manual_map[n] = manual_file[n]
        /\ \A n \in DOMAIN manual_map \ DOMAIN manual_file :
              /\ manual_map[n] = NoneCode
              /\ \E f \in SeqRange(all_files) : f.name = n

\* an unknown file was recorded in a map that had a code for another scanned
\* file and a null entry for a file that was not scanned
C13_Witness ==
    /\ Built
    /\ DOMAIN manual_map # DOMAIN manual_file
    /\ \E f \in SeqRange(all_files) :
          f.name \in DOMAIN manual_file /\ Truthy(manual_file[f.name])
    /\ \E n \in DOMAIN manual_file :
          manual_file[n] = NoneCode /\ \A f \in SeqRange(all_files) : f.name # n

-----------------------------------------------------------------------------
(* C14, C15: unusable inputs *)

DegradedInput ==
    inputs.ddc.state # "ok" \/ inputs.lt.state # "ok" \/ inputs.manual # "ok"

\* the run ended before the index reset
EndedEarly == pc \in {"exit", "aborted"} /\ hist.last_move = "none"

\* C14: a run over an existing library root with a missing or corrupt input
\* file does not abort; it goes on with an empty table or map for that input.
C14_DegradedInputsContinue ==
    (inputs.root /\ DegradedInput) =>
        /\ pc # "aborted"
        /\ InRun =>
              /\ inputs.ddc.state # "ok" => ddc_tree = <<>>
              /\ inputs.lt.state # "ok" => meta_map = EmptyMap
              /\ (inputs.manual # "ok" /\ pc = "reset_author") => manual_map = EmptyMap

NoUsableTable == inputs.ddc.state # "ok"

\* C15: a run whose library root does not exist or whose classification table
\* cannot be loaded ends early, with no index reset, scan, map write or move;
\* a run ends early in these two cases only.
C15_EarlyExitForRootOrTable ==
    /\ (pc # "start" /\ (~inputs.root \/ NoUsableTable)) =>
          /\ EndedEarly
          /\ all_files = <<>> /\ ~hist.wiped /\ ~hist.saved /\ ~hist.moved
    /\ EndedEarly => (~inputs.root \/ NoUsableTable)

-----------------------------------------------------------------------------
(* C16: the shape of the tree build_virtual_tree returns *)

\* the code build_virtual_tree uses for a file, given the map as it was passed in
EffectiveCode(f) ==
    IF Truthy(MetaCode(f.name, meta_map)) THEN MetaCode(f.name, meta_map)
    ELSE IF f.name \in DOMAIN manual_file THEN manual_file[f.name] ELSE NoneCode

\* the resolved chain of a file (empty when it has no usable code)
ChainOf(f) == ResolvePathStack(EffectiveCode(f), ddc_tree)

\* the chain of f passes through the node at key path P
PassesThrough(f, P) == P # <<>> /\ IsPrefix(P, ChainKeys(EffectiveCode(f)))

Occurrences(s, x) == Cardinality({k \in 1..Len(s) : s[k] = x})

\* C16: after build_virtual_tree a node exists at a position if and only if
\* the resolved chain of some input file passes through that position, and it
\* carries that range and its folder path; every non-root node has a file in its
\* subtree; every file with a non-empty chain is attached exactly once, to the
\* node of the deepest range of its chain, every other file nowhere; the root
\* has no direct files.
C16_NodesMirrorChains ==
    Built =>
        LET chains == [f \in SeqRange(all_files) |-> ChainOf(f)]
            keys == [f \in SeqRange(all_files) |->
                        [k \in 1..Len(chains[f]) |-> NodeKey(ddc_tree[chains[f][k]])]]
        IN /\ \A f \in SeqRange(all_files) : \A k \in 1..Len(keys[f]) :
                 SubSeq(keys[f], 1, k) \in DOMAIN vtree
           /\ \A P \in DOMAIN vtree \ {<<>>} :
                 /\ \E f \in SeqRange(all_files) :
                       /\ IsPrefix(P, keys[f])
                       /\ vtree[P].ddc_def = chains[f][Len(P)]
                       /\ vtree[P].full_path =
                             [k \in 1..Len(P) |-> GetFolderName(ddc_tree[chains[f][k]])]
                 /\ \E n \in DOMAIN vtree : IsPrefix(P, n) /\ vtree[n].files # <<>>
           /\ \A P \in DOMAIN vtree :
                 /\ SeqRange(vtree[P].children) =
                       {k \in 1..Len(ddc_tree) : Append(P, k) \in DOMAIN vtree}
                 /\ \A k \in SeqRange(vtree[P].children) :
                       Occurrences(vtree[P].children, k) = 1
           /\ \A f \in SeqRange(all_files) :
                 /\ AttachedAt(f) = IF keys[f] = <<>> THEN {} ELSE {keys[f]}
                 /\ \A n \in AttachedAt(f) : Occurrences(vtree[n].files, f) = 1
           /\ vtree[<<>>].files = <<>>
           /\ \A n \in DOMAIN vtree : SeqRange(vtree[n].files) \subseteq SeqRange(all_files)

\* two files were attached to different nodes below a common range
C16_Witness ==
    /\ Built
    /\ \E f, g \in SeqRange(all_files) :
          /\ AttachedAt(f) # {} /\ AttachedAt(g) # {}
          /\ AttachedAt(f) # AttachedAt(g)
          /\ \E P \in DOMAIN vtree : PassesThrough(f, P) /\ PassesThrough(g, P)
          /\ Len(ChainOf(f)) # Len(ChainOf(g))

-----------------------------------------------------------------------------
(* C17, C18: what balance_and_execute visits and realizes *)

\* the nodes at or below child key of node
Below(node, key) == {n \in DOMAIN vtree : IsPrefix(Append(node, key), n)}

Parent(node) == SubSeq(node, 1, Len(node) - 1)

Distributed == pc = "distribute" /\ todo = <<>>

\* C17: a node below the top level is visited only if its parent was visited
\* and marked it active; the files staying at a visited node are its direct
\* files and all files at any depth below its non-active children; no node at
\* or below a non-active child is visited or gets a folder; every active child
\* is visited in the end.
C17_OnlyActiveChildrenVisited ==
    \A node \in DOMAIN visited :
        /\ Len(node) > 1 =>
              /\ Parent(node) \in DOMAIN visited
              /\ node[Len(node)] \in visited[Parent(node)].active_subfolders
        /\ SeqRange(visited[node].files_staying) =
              SeqRange(vtree[node].files) \cup
              UNION {SeqRange(vtree[n].files) :
                       n \in UNION {Below(node, k) :
                                       k \in Children(node) \ visited[node].active_subfolders}}
        /\ Len(visited[node].files_staying) = Cardinality(SeqRange(visited[node].files_staying))
        /\ \A k \in Children(node) \ visited[node].active_subfolders :
              \A n \in Below(node, k) :
                 n \notin DOMAIN visited /\ vtree[n].full_path \notin fs_dirs
        /\ Distributed =>
              \A k \in visited[node].active_subfolders : Append(node, k) \in DOMAIN visited

\* a child that has a child of its own was absorbed
C17_Witness ==
    /\ Distributed
    /\ \E node \in DOMAIN visited :
          \E k \in Children(node) \ visited[node].active_subfolders :
             \E n \in Below(node, k) : Len(n) > Len(node) + 1 /\ vtree[n].files # <<>>

\* C18: a folder exists after a call only for a visited node that keeps a file
\* or has an active subfolder, and only in a non-dry run; when the distribution
\* is over every such folder holds a file or a subfolder.
C18_FoldersHoldContent ==
    /\ \A d \in fs_dirs \ {Inbox} :
          /\ ~dry_run
          /\ \E node \in DOMAIN visited :
                /\ vtree[node].full_path = d
                /\ \/ visited[node].files_staying # <<>>
                   \/ visited[node].active_subfolders # {}
    /\ (Distributed /\ ~dry_run) =>
          /\ \A d \in fs_dirs \ {Inbox} : FilesIn(d) # {} \/ SubDirs(d) # {}
          /\ \A node \in DOMAIN visited : vtree[node].full_path \in fs_dirs

\* a folder was made for a node that keeps no file and has active subfolders
C18_Witness ==
    /\ Distributed /\ ~dry_run
    /\ \E node \in DOMAIN visited :
          /\ visited[node].files_staying = <<>>
          /\ visited[node].active_subfolders # {}
          /\ vtree[node].full_path \in fs_dirs
          /\ FilesIn(vtree[node].full_path) = {}

-----------------------------------------------------------------------------
(* C19: the order of the steps and what the scan takes *)

\* the steps of main() in the order of its text
StepOrder ==
    {<<"reset_author", "reset_year">>, <<"reset_year", "scan">>, <<"scan", "build">>,
     <<"build", "save">>, <<"save", "distribute">>, <<"distribute", "moving">>,
     <<"moving", "distribute">>, <<"distribute", "done">>, <<"moving", "aborted">>}

IsIndexLink(f) == \E l \in links : LinkDir(l) = f.dir /\ l.name = f.name

LibraryFile(f) == ~UnderIndexDir(f.dir) /\ ~IsIndexLink(f)

ScanTakesLibraryFilesOnly ==
    /\ pc = "build" =>
          /\ SeqRange(all_files) = {f \in fs_files : ~UnderIndexDir(f.dir)}
          /\ ~dry_run => links = {} /\ \A f \in fs_files : ~UnderIndexDir(f.dir)
    /\ \A f \in SeqRange(all_files) : LibraryFile(f)
    /\ vtree # <<>> => \A n \in DOMAIN vtree : \A f \in SeqRange(vtree[n].files) : LibraryFile(f)
    /\ cur # <<>> => \A f \in SeqRange(cur.rest) : LibraryFile(f)
    /\ (pc \in {"distribute", "moving", "done"} /\ hist.saved) => manual_file = manual_map

\* C19: a run takes its steps in the order reset of By Author, reset of By
\* Year, scan, tree build, map save, distribution, cleanup; the scan returns the
\* regular files outside the index directories, after the indexes were wiped in
\* a non-dry run, so no link and no path below an index directory is ever
\* scanned, attached to the tree or moved.
C19_StepsInOrderScanSkipsIndex ==
    /\ []ScanTakesLibraryFilesOnly
    /\ [][(InRun /\ pc' # pc) => <<pc, pc'>> \in StepOrder]_vars

\* a dry run scanned a library whose index held a link and a regular file
C19_Witness ==
    /\ pc = "build" /\ dry_run
    /\ all_files # <<>>
    /\ StaleLink \in links
    /\ StrayFile \in fs_files

-----------------------------------------------------------------------------
(* C20: get_pareto_frontier *)

\* (Time', Size') of q dominates (Time, Size) of r
Dominates(q, r) ==
    /\ q.comp_time <= r.comp_time
    /\ q.compressed_size <= r.compressed_size
    /\ q.comp_time < r.comp_time \/ q.compressed_size < r.compressed_size

ParetoEfficient(r) ==
    \A q \in SeqRange(results) : (q # r /\ q.file = r.file) => ~Dominates(q, r)

\* C20: a result is returned if and only if no other result for the same file
\* dominates it.
C20_ExactlyParetoEfficient ==
    pc = "pareto_ret" =>
        \A r \in SeqRange(results) : r \in SeqRange(pareto_results) <=> ParetoEfficient(r)

-----------------------------------------------------------------------------
(* C21: conservation in distribution *)

\* the prefixes of the key path n whose proper ancestors, from the top-level
\* node on, were all visited and marked the next node on the path active
ReachedOn(n) ==
    {m \in 1..Len(n) :
        \A k \in 1..(m - 1) :
           /\ SubSeq(n, 1, k) \in DOMAIN visited
           /\ n[k + 1] \in visited[SubSeq(n, 1, k)].active_subfolders}

\* the deepest such node: the folder a file attached at n is destined for
HomeOf(n) ==
    SubSeq(n, 1, CHOOSE m \in ReachedOn(n) : \A o \in ReachedOn(n) : o <= m)

\* the visited nodes whose list of staying files holds f
StaysAt(f) == {v \in DOMAIN visited : f \in SeqRange(visited[v].files_staying)}

\* C21: when the distribution is over, every file attached to a node below the
\* root is in the staying-files list of exactly one visited node, once, and
\* that node is the deepest node on the path from the top-level node to the
\* file's node all of whose ancestors on the path were marked active.
C21_EveryFileStaysOnce ==
    Distributed =>
        \A n \in DOMAIN vtree \ {<<>>} : \A f \in SeqRange(vtree[n].files) :
            /\ StaysAt(f) = {HomeOf(n)}
            /\ Occurrences(visited[HomeOf(n)].files_staying, f) = 1

\* a file attached at depth 3 stays at depth 2 next to a file that stays at its
\* own node
C21_Witness ==
    /\ Distributed
    /\ \E n \in DOMAIN vtree : \E f \in SeqRange(vtree[n].files) :
          /\ Len(n) = 3
          /\ StaysAt(f) = {SubSeq(n, 1, 2)}
    /\ \E n \in DOMAIN vtree \ {<<>>} : \E f \in SeqRange(vtree[n].files) :
          StaysAt(f) = {n}

-----------------------------------------------------------------------------
(* C22: destinations in a non-dry run *)

\* the destination paths this run has planned: os.path.join(node.full_path, filename)
\* for every file staying at a visited node, with the source it is planned for
PlannedMoves ==
    UNION {{[src |-> f, dst |-> FileInfo(vtree[v].full_path, f.name)] :
               f \in SeqRange(visited[v].files_staying)} : v \in DOMAIN visited}

\* C22: in a non-dry run no two distinct source files get the same destination
\* path, no move replaces an existing file, and after a complete run the library
\* holds as many files as were scanned.
C22_NoSharedDestination ==
    (~dry_run /\ (InRun \/ pc = "done")) =>
        /\ \A p, q \in PlannedMoves : p.dst = q.dst => p.src = q.src
        /\ ~hist.overwrote
        /\ (pc = "done" /\ ~hist.failed_any) =>
              Cardinality({f \in fs_files : ~UnderIndexDir(f.dir)}) = Len(all_files)

-----------------------------------------------------------------------------
(* C23: the library root *)

\* C23: balance_and_execute is never called for the virtual root; when the
\* distribution is over every top-level node of the tree was visited and, in a
\* non-dry run, has its own folder; no file staying anywhere is destined for the
\* library root and no file lies in the library root, whatever the threshold.
C23_RootIsNeverBalanced ==
    /\ \A v \in DOMAIN visited :
          /\ v # <<>>
          /\ vtree[v].full_path # LibraryRoot
    /\ \A f \in fs_files : f.dir # LibraryRoot
    /\ Distributed =>
          \A k \in Children(<<>>) :
             /\ <<k>> \in DOMAIN visited
             /\ Len(vtree[<<k>>].full_path) = 1
             /\ ~dry_run => vtree[<<k>>].full_path \in fs_dirs
             /\ \A n \in Below(<<>>, k) : \A f \in SeqRange(vtree[n].files) :
                   ~dry_run => \E g \in fs_files :
                                  /\ g.name = f.name
                                  /\ IsPrefix(vtree[<<k>>].full_path, g.dir)

\* two top-level ranges whose files together fit the threshold each got a folder
C23_Witness ==
    /\ Distributed /\ ~dry_run
    /\ Cardinality(Children(<<>>)) = 2
    /\ Len(all_files) <= threshold
    /\ \A k \in Children(<<>>) : FilesIn(vtree[<<k>>].full_path) # {}

====
